---------------------------- MODULE Spec2Model ----------------------------
(***************************************************************************)
(* A model of the NLGC estimation core: the sparse VAR/Q estimator         *)
(* (NeuraLVAR.fit / NeuraLVAR._fit, src/nlgc/opt/opt.py) and the link      *)
(* hypothesis engine (_gc_extraction, _learn_reduced_model,                *)
(* _learn_reduced_model_parallel, src/nlgc/_nlgc.py).                      *)
(*                                                                         *)
(* Floating-point quantities are modelled by integers: a log-likelihood    *)
(* is an integer, a coefficient is an integer, a tolerance is a rational   *)
(* TolNum/TolDen.  The smoother and the coordinate solvers are numerical   *)
(* routines; their results are drawn from small sets, subject to what the  *)
(* code around them does with those results.                               *)
(*                                                                         *)
(* An optional Python value is a sequence of length at most one:           *)
(* None is << >> and the value v is << v >>.                               *)
(***************************************************************************)
EXTENDS Integers, Sequences, FiniteSets, TLC

(***************************************************************************)
(* Bounds of the model.                                                    *)
(***************************************************************************)
\* longest restriction string a caller passes to the public fit
MaxLen == 5
\* largest iteration cap (max_iter) a caller passes
MaxIter == 3

None == << >>
Some(v) == << v >>
IsNone(o) == o = << >>
Val(o) == o[1]

Min(a, b) == IF a <= b THEN a ELSE b
Abs(x) == IF x < 0 THEN -x ELSE x

(***************************************************************************)
(* Strings.  A string is a sequence of one-character strings.              *)
(***************************************************************************)
Digits == <<"0", "1", "2", "3", "4", "5", "6", "7", "8", "9">>

IsDigit(c) == \E d \in 1..10 : Digits[d] = c

DigitVal(c) == (CHOOSE d \in 1..10 : Digits[d] = c) - 1

\* the characters callers' restriction strings are drawn from
Alphabet == {"0", "1", "-", ">", ",", "a"}

RECURSIVE StringsOfLen(_)
StringsOfLen(n) ==
    IF n = 0 THEN {<< >>}
    ELSE {Append(s, c) : s \in StringsOfLen(n - 1), c \in Alphabet}

StringsUpTo(n) == UNION {StringsOfLen(k) : k \in 0..n}

\* s[from..] as a string
Drop(s, k) == SubSeq(s, k + 1, Len(s))
Take(s, k) == SubSeq(s, 1, k)

StartsWith(s, pre) == Len(s) >= Len(pre) /\ Take(s, Len(pre)) = pre

\* str(n) for an int n
RECURSIVE StrNat(_)
StrNat(n) ==
    IF n < 10 THEN <<Digits[n + 1]>>
    ELSE Append(StrNat(n \div 10), Digits[(n % 10) + 1])

PyStr(n) == IF n < 0 THEN <<"-">> \o StrNat(-n) ELSE StrNat(n)

\* sep.join(parts)
RECURSIVE PyJoin(_, _)
PyJoin(sep, parts) ==
    IF Len(parts) = 0 THEN << >>
    ELSE IF Len(parts) = 1 THEN parts[1]
    ELSE parts[1] \o sep \o PyJoin(sep, Tail(parts))

\* re.split(sep, s) for a literal pattern sep: cut at the leftmost
\* non-overlapping occurrences of sep
RECURSIVE SplitFrom(_, _, _)
SplitFrom(sep, s, acc) ==
    IF Len(s) = 0 THEN <<acc>>
    ELSE IF StartsWith(s, sep) THEN <<acc>> \o SplitFrom(sep, Drop(s, Len(sep)), << >>)
    ELSE SplitFrom(sep, Tail(s), Append(acc, Head(s)))

ReSplit(sep, s) == SplitFrom(sep, s, << >>)

\* the value of a string of decimal digits
RECURSIVE DigitsVal(_)
DigitsVal(s) ==
    IF Len(s) = 0 THEN 0
    ELSE 10 * DigitsVal(Take(s, Len(s) - 1)) + DigitVal(s[Len(s)])

AllDigits(s) == Len(s) > 0 /\ \A k \in 1..Len(s) : IsDigit(s[k])

\* PyInt reading a token that is no integer as 0
PyIntLenient(s) ==
    IF AllDigits(s) THEN Some(DigitsVal(s))
    ELSE IF Len(s) > 1 /\ s[1] = "-" /\ AllDigits(Tail(s)) THEN Some(-DigitsVal(Tail(s)))
    ELSE Some(0)

\* int(s): None when int() raises ValueError.  An optional sign, then one
\* or more decimal digits.
PyInt(s) ==
    IF AllDigits(s) THEN Some(DigitsVal(s))
    ELSE IF Len(s) > 1 /\ s[1] = "-" /\ AllDigits(Tail(s)) THEN Some(-DigitsVal(Tail(s)))
    ELSE None

\* [int(t) for t in toks]: None when any int() raises
PyInts(toks) ==
    IF \E k \in 1..Len(toks) : IsNone(PyInt(toks[k])) THEN None
    ELSE Some([k \in 1..Len(toks) |-> Val(PyInt(toks[k]))])

\* list(range(start, stop, step)), step > 0
RECURSIVE PyRange(_, _, _)
PyRange(start, stop, step) ==
    IF start >= stop THEN << >>
    ELSE <<start>> \o PyRange(start + step, stop, step)

\* [v] * n
Repeat(v, n) == [k \in 1..n |-> v]

RECURSIVE Concat(_)
Concat(seqs) == IF Len(seqs) = 0 THEN << >> ELSE Head(seqs) \o Concat(Tail(seqs))


(***************************************************************************)
(* Index helpers and coefficient arrays.  Arrays are 0-based as in the     *)
(* code.  The coefficient tensor a has shape (p, m, m): a[<<k, j, i>>] is  *)
(* the lag-k coefficient from source index i into target index j.  The     *)
(* stacked matrix a_upper has shape (m, m*p).                              *)
(***************************************************************************)
\* the values a coefficient takes in the model
CoefVals == {1, 2}

TensorIdx(m, p) == (0..(p - 1)) \X (0..(m - 1)) \X (0..(m - 1))
StackedIdx(m, p) == (0..(m - 1)) \X (0..(m * p - 1))

ConstTensor(m, p, v) == [x \in TensorIdx(m, p) |-> v]
ConstStacked(m, p, v) == [x \in StackedIdx(m, p) |-> v]

\* _expand_roi_indices_as_tup(reg_idx, emod)
ExpandRoi(reg_idx, emod) == PyRange(reg_idx * emod, reg_idx * emod + emod, 1)

\* np.reshape(np.swapaxes(a, 0, 1), (m, m * p))
RavelA(a, m, p) ==
    [x \in StackedIdx(m, p) |-> a[<<x[2] \div m, x[1], x[2] % m>>]]

\* the stacked matrix read with the lags interleaved:
\* np.swapaxes(np.reshape(a, (m, m, p)), 1, 2) moved to (p, m, m)
UnravelAInterleaved(au, m, p) ==
    [x \in TensorIdx(m, p) |-> au[<<x[2], x[3] * p + x[1]>>]]

\* np.swapaxes(np.reshape(a, (m, p, m)), 0, 1)
UnravelA(au, m, p) ==
    [x \in TensorIdx(m, p) |-> au[<<x[2], x[1] * m + x[3]>>]]

\* numpy's a[:, rows, cols] = 0.0 with two index tuples of the same length:
\* the tuples are paired element by element
ZeroPairedTensor(a, rows, cols, m, p) ==
    [x \in TensorIdx(m, p) |->
        IF \E n \in 1..Len(rows) : rows[n] = x[2] /\ cols[n] = x[3] THEN 0 ELSE a[x]]

(***************************************************************************)
(* The restriction of NeuraLVAR._fit: the string is split at '->' and at   *)
(* ',', every token goes through int(), the indices are checked against m *)
(* and the zeroed index (x_index, y_index) is built.                       *)
(***************************************************************************)
\* the (i, j) of itertools.product(i_s, j_s), in order
ProductSeq(i_s, j_s) ==
    [n \in 1..(Len(i_s) * Len(j_s)) |->
        <<i_s[((n - 1) \div Len(j_s)) + 1], j_s[((n - 1) % Len(j_s)) + 1]>>]

\* BuildZeroedIndex naming the column of lag 0 for every lag
BuildZeroedIndexLagZero(i_s, j_s, m, p) ==
    LET prod == ProductSeq(i_s, j_s)
    IN  [x |-> Concat([n \in 1..Len(prod) |-> Repeat(prod[n][2], p)]),
         y |-> Concat([n \in 1..Len(prod) |-> Repeat(prod[n][1], p)])]

BuildZeroedIndex(i_s, j_s, m, p) ==
    LET prod == ProductSeq(i_s, j_s)
    IN  [x |-> Concat([n \in 1..Len(prod) |-> Repeat(prod[n][2], p)]),
         y |-> Concat([n \in 1..Len(prod) |-> PyRange(prod[n][1], m * p, m)])]

\* the range test of _fit on the parsed indices
IndexRangeError(i_s, j_s, m) ==
    \/ \E n \in 1..Len(i_s) : i_s[n] >= m
    \/ \E n \in 1..Len(j_s) : j_s[n] >= m

\* the outcome of lines 108-122 for self.restriction = r (an optional string):
\* raised is TRUE when a ValueError leaves _fit
ParseRestriction(r, m, p) ==
    IF IsNone(r) THEN [raised |-> FALSE, zeroed_index |-> None]
    ELSE
      LET parts == ReSplit(<<"-", ">">>, Val(r))
      IN  IF Len(parts) # 2 THEN [raised |-> TRUE, zeroed_index |-> None]
          ELSE
            LET i_s == PyInts(ReSplit(<<",">>, parts[1]))
                j_s == PyInts(ReSplit(<<",">>, parts[2]))
            IN  IF IsNone(i_s) \/ IsNone(j_s)
                  THEN [raised |-> TRUE, zeroed_index |-> None]
                ELSE IF IndexRangeError(Val(i_s), Val(j_s), m)
                  THEN [raised |-> TRUE, zeroed_index |-> None]
                ELSE [raised |-> FALSE,
                      zeroed_index |-> Some(BuildZeroedIndex(Val(i_s), Val(j_s), m, p))]

\* the test at the head of NeuraLVAR.fit and NeuraLVARCV.fit:
\*   (restriction is None or re.search('->', restriction)) is False
\* The operand of "is False" is the value of the "or": True, a match object or
\* None.
Contains(s, sub) == \E k \in 0..(Len(s) - Len(sub)) : StartsWith(Drop(s, k), sub)

RestrictionFormatError(r) ==
    LET operand == IF IsNone(r) THEN "True"
                   ELSE IF Contains(Val(r), <<"-", ">">>) THEN "Match"
                   ELSE "None"
    IN  operand = "False"

\* the string _learn_reduced_model passes as restriction
LinkString(source, target) ==
    PyJoin(<<"-", ">">>,
           <<PyJoin(<<",">>, [n \in 1..Len(source) |-> PyStr(source[n])]),
             PyJoin(<<",">>, [n \in 1..Len(target) |-> PyStr(target[n])])>>)


(***************************************************************************)
(* State.                                                                  *)
(*                                                                         *)
(* One NeuraLVAR object and one call of its fit at a time: the fields of   *)
(* the object, the arguments and locals of fit/_fit, and the position in   *)
(* the EM loop.  The caller is either a user of the public fit ("public")  *)
(* or _learn_reduced_model ("reduced"), which builds the restriction and   *)
(* the warm start of a reduced model from the full model.                  *)
(***************************************************************************)
VARIABLES
    \* ---- the problem and the object (NeuraLVAR.__init__) ----
    n_eigenmodes,   \* self._n_eigenmodes
    order,          \* self._order (p)
    restriction,    \* self.restriction (optional string)
    parameters,     \* self._parameters: optional [a, q]
    ll,             \* self.ll (optional)
    lambda_,        \* self.lambda_ (optional)
    model_zeroed,   \* self._zeroed_index (optional)
    model_lls,      \* self._lls[0]
    \* ---- the call ----
    pc,             \* "idle", "estep", "mstep", "cyclic", "return", "fitted",
                    \* "done", "raised"
    caller,         \* "none", "public", "reduced"
    link,           \* <<i, j>> of _learn_reduced_model (source i, target j)
    call,           \* the arguments the caller gave to fit: lambda2, lb, la
    args,           \* the arguments of _fit: lambda2, lb, la, max_iter,
                    \* max_cyclic_iter
    \* ---- locals of _fit ----
    zeroed_index,   \* optional [x, y]
    a_upper,        \* stacked coefficients, shape (m, m*p)
    q_upper,        \* diagonal of Q, one value per state index
    a_,             \* optional: the first m rows of the matrix last handed to sskf
    prior_arg,      \* the arguments alpha and beta of the call, rationals [num, den]
    t_ss,           \* t, the sample count calculate_ss returns for the data
    prior,          \* the locals alpha and beta of _fit
    warned,         \* optional BOOLEAN: whether the last cyclic pass issued the
                    \* RuntimeWarning of line 165
    it,             \* the loop variable i of the EM loop
    cyc,            \* the number of cyclic passes done in the current M-step
    lls,            \* the trace of log-likelihoods
    rel_q_small,    \* optional BOOLEAN: rel_q_change < rel_tol, once assigned
    policies,       \* the coefficient-update policies the M-steps used
    n_estep,        \* the number of smoother runs of the call
    broke,          \* TRUE when the EM loop left through the convergence check
    \* ---- results of _learn_reduced_model ----
    conv_flag,      \* optional BOOLEAN
    before          \* the object's fields when the call was made

fitVars == <<n_eigenmodes, order, prior_arg, t_ss, prior,
             restriction, parameters, ll, lambda_, model_zeroed,
             model_lls, pc, caller, link, call, args, zeroed_index, a_upper, q_upper,
             a_, warned, it, cyc, lls, rel_q_small, policies, n_estep, broke,
             conv_flag, before>>

\* ---- the link stage (_gc_extraction) ----
VARIABLES
    l_pc,             \* "off", "start", "parallel", "done", "raised"
    model_f,          \* the fitted full model: [a, q, ll]
    ROIs,             \* the candidate regions, a list
    sparsity_factor,  \* a rational [num, den]
    links_to_check,   \* the list of (j, i): target j, source i
    pending,          \* positions of links_to_check whose task has not run
    shm,              \* the state of each shared buffer the stage created: "none",
                      \* "created", "closed" (closed, not unlinked), "unlinked"
    shared_ll_r,      \* the shared log-likelihood buffer, shape (nx, nx)
    shared_bias_r,    \* the shared bias buffer
    shared_conv_flag, \* the shared convergence buffer (created from dev_raw: floats)
    dev_raw,          \* the deviance matrix
    bias_r,           \* the reduced-model bias matrix
    conv_flags,       \* the convergence matrix the stage returns
    bias_f,           \* the full-model bias the stage returns
    task_ll,          \* per (target, source): the log-likelihood the task's reduced
                      \* fit of that link returned (optional)
    var_thr,          \* optional rational [num, den]: None stands for var_thr >= 1
    x_power,          \* per state index: the sum of squares of the full model's
                      \* smoothed states (np.sum(x[:, :m] ** 2, axis=0))
    patch_idx         \* the list the caller passed as ROIs

linkVars == <<l_pc, model_f, ROIs, sparsity_factor, links_to_check, pending, shm,
              shared_ll_r, shared_bias_r, shared_conv_flag, dev_raw, bias_r,
              conv_flags, bias_f, task_ll, var_thr, x_power, patch_idx>>

\* ---- the cross-validated fit (NeuraLVARCV.fit and its _cvfit tasks) ----
VARIABLES
    cv_pc,          \* "off", "start", "folds", "collected", "selected", "refit"
    cv_lambdas,     \* lambda_range: the grid, positions 0 .. len - 1
    use_es,         \* the argument use_es
    shared_cv_mat,  \* the shared buffer of cv_mat, shape (2, len(cvsplits), len(grid))
    shared_pred,    \* the shared buffer of pred_mat, one value per (split, position)
    cv_pending,     \* the splits whose _cvfit task has not run
    mse_path,       \* self.mse_path (optional)
    es_path,        \* self.es_path (optional): rationals [num, den], 0/0 is NaN
    index,          \* the local index of the selection (optional)
    best_lambda,    \* the local best_lambda (optional)
    cv_a_init,      \* the argument a_init of NeuraLVARCV.fit (optional)
    cv_fits,        \* per (split, position): the a_init _cvfit passed to _fit
                    \* and the coefficients the fit returned (optional)
    cv_shm,         \* per shared buffer of the stage: "none", "created",
                    \* "closed", "unlinked"
    cv_open         \* per split: the handles its task attached and has not
                    \* closed

cvVars == <<cv_pc, cv_lambdas, use_es, shared_cv_mat, shared_pred, cv_pending,
            mse_path, es_path, index, best_lambda, cv_a_init, cv_fits, cv_shm,
            cv_open>>

\* ---- one run of a smoother (sskf, sskfcv or sskf_prediction) ----
VARIABLES
    sskf_pc,        \* "off", "riccati", "forward", "backward", "done",
                    \* "riccati_failed" (the Riccati solve raised), "raised"
    variant,        \* "sskf", "sskfcv", "sskf_prediction"
    tried,          \* the Riccati solver configurations tried, in order
    sskf_y,         \* the input y: one value per sample, samples 0 .. t-1
    gains,          \* [a, f, k, b]: the model and the gains of the run (one state,
                    \* one channel)
    _x,             \* the one-step-ahead predicted states, one per sample
    x_,             \* the filtered, then smoothed states, one per sample
    sskf_pred,      \* sskf_prediction's pred, one per sample
    sskf_i,         \* the loop variable of the forward or the backward pass
    forward_x       \* _x as the forward pass left it (optional)

sskfVars == <<sskf_pc, variant, tried, sskf_y, gains, _x, x_, sskf_pred, sskf_i,
              forward_x>>

notFitVars == <<linkVars, cvVars, sskfVars>>

notLinkVars == <<fitVars, cvVars, sskfVars>>

notCvVars == <<fitVars, linkVars, sskfVars>>

notSskfVars == <<fitVars, linkVars, cvVars>>

vars == <<fitVars, linkVars, cvVars, sskfVars>>

\* the number of regions (sources before eigenmode expansion)
NRegions == 2

\* f.shape[1]: the number of state indices
M == NRegions * n_eigenmodes

\* the values of a log-likelihood in the model; none is 0, _fit divides by it
LLVals == {100, 50}

\* rel_tol, as a rational
RelTol == [num |-> 1, den |-> 10]

\* the values solve_for_q leaves in a diagonal entry of Q: positive, zero or
\* negative (line 164 tests for the last)
QVals == {-1, 0, 1}

Fields == [parameters |-> parameters, ll |-> ll, lambda_ |-> lambda_]


(***************************************************************************)
(* NeuraLVAR.fit and the head of NeuraLVAR._fit.                           *)
(***************************************************************************)
\* the keyword arguments NeuraLVAR.fit hands to _fit (lines 342-344)
FitPassesToFit(lam2, lb, la, max_iter, max_cyclic_iter) ==
    [lambda2 |-> lam2, lb |-> None, la |-> None,
     max_iter |-> max_iter, max_cyclic_iter |-> max_cyclic_iter]

\* _prep_for_sskf: a_upper is zero unless an initial tensor is given
PrepAUpper(a_init, m, p) ==
    IF IsNone(a_init) THEN ConstStacked(m, p, 0) ELSE RavelA(Val(a_init), m, p)

ConstQ(m, v) == [k \in 0..(m - 1) |-> v]

\* one call of fit(restriction = r, lambda2 = lam2, lb = lb, la = la, ...) by
\* `who`: fit's own test, self.restriction, then _fit up to the EM loop
FitCall(who, lnk, r, a_init, q_init, lam2, lb, la, max_iter, max_cyclic_iter) ==
    LET parsed == ParseRestriction(r, M, order)
        failed == RestrictionFormatError(r) \/ parsed.raised
    IN  /\ caller' = who
        /\ link' = lnk
        /\ call' = [lambda2 |-> lam2, lb |-> lb, la |-> la]
        /\ before' = Fields
        /\ restriction' = IF RestrictionFormatError(r) THEN restriction ELSE r
        /\ args' = FitPassesToFit(lam2, lb, la, max_iter, max_cyclic_iter)
        /\ a_upper' = PrepAUpper(a_init, M, order)
        /\ q_upper' = q_init
        /\ zeroed_index' = parsed.zeroed_index
        /\ pc' = IF failed THEN "raised" ELSE "estep"
        /\ a_' = None
        /\ warned' = None
        /\ prior' = prior_arg
        /\ it' = 0
        /\ cyc' = 0
        /\ lls' = << >>
        /\ rel_q_small' = None
        /\ policies' = {}
        /\ n_estep' = 0
        /\ broke' = FALSE
        /\ conv_flag' = None
        /\ UNCHANGED <<n_eigenmodes, order, prior_arg, t_ss, parameters, ll, lambda_, model_zeroed,
                       model_lls>>

FitEntry(who, lnk, r, a_init, q_init, lam2, lb, la, max_iter, max_cyclic_iter) ==
    /\ FitCall(who, lnk, r, a_init, q_init, lam2, lb, la, max_iter, max_cyclic_iter)
    /\ UNCHANGED notFitVars

\* the regularization strengths a caller passes (None: not given)
LambdaInputs == {None, Some(1)}

\* the restrictions a user of the public fit passes along with the other
\* arguments
RestrictionSamples ==
    {None, Some(<<"0", "-", ">", "1">>), Some(<<"0", ",", "1", "-", ">", "1">>)}

\* a user calls model.fit(y, f, r, lambda2, lb, la, max_iter, ..., restriction)
PublicFit ==
    /\ pc = "idle"
    /\ \E r \in RestrictionSamples, lam2 \in LambdaInputs, pair \in LambdaInputs,
          max_iter \in 1..MaxIter :
         FitEntry("public", None, r, None, ConstQ(M, 1), lam2, pair, pair, max_iter, 2)

\* a user calls model.fit(y, f, r, lambda2, restriction = r) with any string
PublicFitAnyString ==
    /\ pc = "idle"
    /\ \E str \in StringsUpTo(MaxLen) :
         FitEntry("public", None, Some(str), None, ConstQ(M, 1), Some(1), None, None,
                  2, 1)

\* _learn_reduced_model(i, j, ...): lines 406-418
ReducedAInit(a, i, j, emod, m, p) ==
    ZeroPairedTensor(a, ExpandRoi(j, emod), ExpandRoi(i, emod), m, p)

LearnReducedModel ==
    /\ pc = "idle"
    /\ IsNone(parameters)
    /\ \E i \in 0..(NRegions - 1), j \in 0..(NRegions - 1),
          v \in {0, 1}, max_iter \in 1..MaxIter :
         /\ i # j
         /\ FitEntry("reduced", Some(<<i, j>>),
                     Some(LinkString(ExpandRoi(i, n_eigenmodes), ExpandRoi(j, n_eigenmodes))),
                     Some(ReducedAInit(ConstTensor(M, order, v), i, j, n_eigenmodes, M, order)),
                     ConstQ(M, 1), Some(1), None, None, max_iter, 2)

(***************************************************************************)
(* The EM loop of _fit.                                                    *)
(***************************************************************************)
\* a loop that runs its body once more than range(n) does
RangeHasNextInclusive(i, n) == i + 1 <= n

\* for i in range(n): after the body has run for i, it runs again for i + 1
\* when i + 1 < n (lines 128 and 148)
RangeHasNext(i, n) == i + 1 < n

\* a stopping test that looks at the log-likelihood only
StoppingCondLlOnly(i, trace, rq) ==
    /\ i > 0
    /\ Abs(trace[i] - trace[i + 1]) * RelTol.den < RelTol.num * Abs(trace[i])

\* the stopping test of lines 139-142 at iteration i (trace includes lls[i])
\*   rel_change = (lls[i-1] - lls[i]) / lls[i-1]
\*   np.abs(rel_change) < rel_tol and rel_q_change < rel_tol
StoppingCond(i, trace, rq) ==
    /\ i > 0
    /\ Abs(trace[i] - trace[i + 1]) * RelTol.den < RelTol.num * Abs(trace[i])
    /\ Val(rq)

\* E-step: lines 129-142.  sskf is run with a_upper and q_upper as they are
\* (lines 129-132) and either raises or returns; compute_ll gives the value
\* appended to lls.
EStep ==
    /\ pc = "estep"
    /\ a_' = Some(a_upper)
    /\ n_estep' = n_estep + 1
    /\ \/ /\ pc' = "raised"
          /\ UNCHANGED <<lls, broke>>
       \/ \E v \in LLVals :
            /\ lls' = Append(lls, v)
            /\ IF StoppingCond(it, lls', rel_q_small)
                 THEN pc' = "return" /\ broke' = TRUE
                 ELSE pc' = "mstep" /\ broke' = FALSE
    /\ UNCHANGED notFitVars
    /\ UNCHANGED <<n_eigenmodes, order, prior_arg, t_ss, prior,
                   restriction, parameters, ll, lambda_,
                   model_zeroed, model_lls, caller, link, call, args, zeroed_index,
                   a_upper, q_upper, warned, it, cyc, rel_q_small, policies, conv_flag,
                   before>>

\* lines 145-146, run in every iteration on the locals alpha and beta:
\*   beta = 2 * beta / t
\*   alpha = 2 * (alpha + 1) / t if alpha else alpha
RescalePrior(pr, t) ==
    [alpha |-> IF pr.alpha.num = 0 THEN pr.alpha
               ELSE [num |-> 2 * (pr.alpha.num + pr.alpha.den), den |-> pr.alpha.den * t],
     beta |-> [num |-> 2 * pr.beta.num, den |-> pr.beta.den * t]]

\* M-step, before the cyclic passes: lines 144-146
MStepBegin ==
    /\ pc = "mstep"
    /\ pc' = "cyclic"
    /\ cyc' = 0
    /\ prior' = RescalePrior(prior, t_ss)
    /\ UNCHANGED notFitVars
    /\ UNCHANGED <<n_eigenmodes, order, prior_arg, t_ss, restriction, parameters, ll, lambda_,
                   model_zeroed, model_lls, caller, link, call, args, zeroed_index,
                   a_upper, q_upper, a_, warned, it, lls, rel_q_small, policies,
                   n_estep, broke, conv_flag, before>>

\* the policy of the coefficient update: lines 150-157
CoefPolicy(ar) ==
    IF ~IsNone(ar.lb) /\ ~IsNone(ar.la) THEN "indepdiag" ELSE "shared"

\* numpy's a[x_index, y_index] = 0.0: the cells set, or None when the index
\* raises IndexError.  Equal lengths pair up, a length of one broadcasts, a
\* negative index counts from the end.
WrapIdx(v, dim) == IF v < 0 THEN v + dim ELSE v

MaskCells(zi, m, p) ==
    LET lx == Len(zi.x)
        ly == Len(zi.y)
        n == IF lx >= ly THEN lx ELSE ly
        xa(k) == IF lx = 1 THEN zi.x[1] ELSE zi.x[k]
        ya(k) == IF ly = 1 THEN zi.y[1] ELSE zi.y[k]
    IN  IF lx # ly /\ lx # 1 /\ ly # 1 THEN None
        ELSE IF \E k \in 1..n : \/ xa(k) < -m \/ xa(k) >= m
                                \/ ya(k) < -(m * p) \/ ya(k) >= m * p THEN None
        ELSE Some({<<WrapIdx(xa(k), m), WrapIdx(ya(k), m * p)>> : k \in 1..n})

\* solve_for_a / solve_for_a_indepdiag with zeroed_index: the solver's
\* candidate with the masked cells forced to zero
SolveForA(cand, zi, m, p) ==
    IF IsNone(zi) THEN cand
    ELSE [x \in StackedIdx(m, p) |-> IF x \in Val(MaskCells(Val(zi), m, p)) THEN 0 ELSE cand[x]]

MaskRaises(zi, m, p) == ~IsNone(zi) /\ IsNone(MaskCells(Val(zi), m, p))

\* q_upper.min()
MinOf(q, m) == CHOOSE v \in {q[k] : k \in 0..(m - 1)} : \A k \in 0..(m - 1) : v <= q[k]

\* the end of a pass, lines 161-165: the early exit comes first
\*   if rel_q_change < rel_tol: break
\*   if q_upper.min() < 0: warnings.warn(...)
WarnsAfterPass(small, q) == ~small /\ MinOf(q, M) < 0

\* one pass of the cyclic loop: lines 148-165, and the end of the EM
\* iteration when the pass is the last one
CyclicPass ==
    /\ pc = "cyclic"
    /\ IF MaskRaises(zeroed_index, M, order)
         THEN /\ pc' = "raised"
              /\ UNCHANGED <<a_upper, q_upper, rel_q_small, policies, cyc, it, warned>>
         ELSE \E v \in CoefVals, qv \in QVals, small \in BOOLEAN :
                /\ a_upper' = SolveForA(ConstStacked(M, order, v), zeroed_index, M, order)
                /\ policies' = policies \cup {CoefPolicy(args)}
                /\ q_upper' = ConstQ(M, qv)
                /\ rel_q_small' = Some(small)
                /\ warned' = Some(WarnsAfterPass(small, ConstQ(M, qv)))
                /\ IF small \/ ~RangeHasNext(cyc, args.max_cyclic_iter)
                     THEN /\ cyc' = 0
                          /\ it' = it + 1
                          /\ pc' = IF RangeHasNext(it, args.max_iter) THEN "estep"
                                                                     ELSE "return"
                     ELSE /\ cyc' = cyc + 1
                          /\ it' = it
                          /\ pc' = "cyclic"
    /\ UNCHANGED notFitVars
    /\ UNCHANGED <<n_eigenmodes, order, prior_arg, t_ss, prior,
                   restriction, parameters, ll, lambda_,
                   model_zeroed, model_lls, caller, link, call, args, zeroed_index,
                   a_, lls, n_estep, broke, conv_flag, before>>

\* _fit returns (lines 167-168) and fit stores the result (lines 345-349)
FitReturn ==
    /\ pc = "return"
    /\ parameters' = Some([a |-> UnravelA(a_upper, M, order), q |-> q_upper])
    /\ model_zeroed' = zeroed_index
    /\ model_lls' = lls
    /\ ll' = Some(lls[Len(lls)])
    /\ lambda_' = call.lambda2
    /\ pc' = IF caller = "reduced" THEN "fitted" ELSE "done"
    /\ UNCHANGED notFitVars
    /\ UNCHANGED <<n_eigenmodes, order, prior_arg, t_ss, prior,
                   restriction, caller, link, call, args,
                   zeroed_index, a_upper, q_upper, a_, warned, it, cyc, lls,
                   rel_q_small, policies, n_estep, broke, conv_flag, before>>

\* conv_flag = len(model_r._lls[0]) == kwargs['max_iter']   (line 421)
ConvFlag(trace, max_iter) == Len(trace) = max_iter

\* _learn_reduced_model after the fit: lines 419-422
LearnReducedReturn ==
    /\ pc = "fitted"
    /\ conv_flag' = Some(ConvFlag(model_lls, args.max_iter))
    /\ pc' = "done"
    /\ UNCHANGED notFitVars
    /\ UNCHANGED <<n_eigenmodes, order, prior_arg, t_ss, prior,
                   restriction, parameters, ll, lambda_,
                   model_zeroed, model_lls, caller, link, call, args, zeroed_index,
                   a_upper, q_upper, a_, warned, it, cyc, lls, rel_q_small,
                   policies, n_estep, broke, before>>

(***************************************************************************)
(* The link stage: _gc_extraction after the full model is fitted (lines    *)
(* 319-401) and the tasks it spawns (_learn_reduced_model_parallel).       *)
(* var_thr is 1 (its default): the candidate list is the caller's ROIs.    *)
(***************************************************************************)
RECURSIVE SumSeq(_)
SumSeq(sq) == IF Len(sq) = 0 THEN 0 ELSE Head(sq) + SumSeq(Tail(sq))

MatIdx(n) == (0..(n - 1)) \X (0..(n - 1))
ConstMat(n, v) == [x \in MatIdx(n) |-> v]

\* np.linalg.norm(a, axis=0, ord=1) * np.diag(q)[None, :]   (line 332)
Sparsity(a, q, m, p) ==
    [x \in MatIdx(m) |->
        SumSeq([k \in 1..p |-> Abs(a[<<k - 1, x[1], x[2]>>])]) * q[x[2]]]

\* sparsity[rows, cols].sum() for two index tuples: numpy pairs the tuples
\* element by element
PairedSum(sp, rows, cols) == SumSeq([n \in 1..Len(rows) |-> sp[<<rows[n], cols[n]>>]])

CrossMass(sp, i, j, emod) == PairedSum(sp, ExpandRoi(j, emod), ExpandRoi(i, emod))
SelfMass(sp, j, emod) == PairedSum(sp, ExpandRoi(j, emod), ExpandRoi(j, emod))

\* Discards with the comparison turned around
DiscardsFlipped(cross, self, sf) == cross * sf.den >= sf.num * self

\* the test of line 353: cross <= sparsity_factor * self
Discards(cross, self, sf) == cross * sf.den <= sf.num * self

\* the loop of lines 345-356 over itertools.product(ROIs, repeat=2), from
\* position n of the product on
RECURSIVE LinksFrom(_, _, _, _, _)
LinksFrom(n, rois, sp, sf, emod) ==
    IF n > Len(rois) * Len(rois) THEN << >>
    ELSE LET i == rois[((n - 1) \div Len(rois)) + 1]
             j == rois[((n - 1) % Len(rois)) + 1]
             rest == LinksFrom(n + 1, rois, sp, sf, emod)
         IN  IF i = j THEN rest
             ELSE IF Discards(CrossMass(sp, i, j, emod), SelfMass(sp, j, emod), sf) THEN rest
             ELSE <<(<<j, i>>)>> \o rest

LinksToCheck(rois, sp, sf, emod) == LinksFrom(1, rois, sp, sf, emod)

Buffers == {"y", "f", "bias_r", "ll_r", "conv_flag"}
\* the regions as np.argsort(total_power)[::-1] orders them: by descending
\* power, and of two regions of equal power the one of higher index first (the
\* reverse of a stable ascending sort)
SortedByPower(tp, nx) ==
    CHOOSE sq \in [1..nx -> 0..(nx - 1)] :
      /\ \A u, w \in 1..nx : u # w => sq[u] # sq[w]
      /\ \A u \in 1..(nx - 1) :
           \/ tp[sq[u]] > tp[sq[u + 1]]
           \/ tp[sq[u]] = tp[sq[u + 1]] /\ sq[u] > sq[u + 1]

\* lines 335-343: the regions kept by the power pre-filter.  total_power sums
\* the eigenmodes of a region; sorted_pow_ratio is the cumulative power over
\* the total (NaN, which compares False, when the total is 0); idx is the
\* first position whose ratio exceeds var_thr, 0 when there is none.
PowerRois(pw, emod, nx, vt) ==
    LET tp == [k \in 0..(nx - 1) |-> SumSeq([e \in 1..emod |-> pw[k * emod + e - 1]])]
        sorted_idx == SortedByPower(tp, nx)
        cum(u) == SumSeq([w \in 1..u |-> tp[sorted_idx[w]]])
        over == {u \in 1..nx : cum(nx) > 0 /\ cum(u) * vt.den > vt.num * cum(nx)}
        idx == IF over = {} THEN 0 ELSE (CHOOSE u \in over : \A w \in over : u <= w) - 1
    IN  SubSeq(sorted_idx, 1, idx + 1)

\* lines 323-367: the result arrays, the links, the shared buffers
GcEnumerate ==
    /\ l_pc = "start"
    /\ dev_raw' = ConstMat(NRegions, 0)
    /\ bias_r' = ConstMat(NRegions, 0)
    /\ conv_flags' = ConstMat(NRegions, 0)
    /\ ROIs' = IF IsNone(var_thr) THEN ROIs
                ELSE PowerRois(x_power, n_eigenmodes, NRegions, Val(var_thr))
    /\ links_to_check' =
         LinksToCheck(ROIs', Sparsity(model_f.a, model_f.q, M, order), sparsity_factor,
                      n_eigenmodes)
    /\ pending' = 1..Len(links_to_check')
    /\ shm' = [b \in Buffers |-> "created"]
    /\ shared_ll_r' = ConstMat(NRegions, 0)
    /\ shared_bias_r' = ConstMat(NRegions, 0)
    /\ shared_conv_flag' = ConstMat(NRegions, 0)
    /\ l_pc' = "parallel"
    /\ UNCHANGED <<model_f, sparsity_factor, bias_f, task_ll, var_thr, x_power,
                   patch_idx>>
    /\ UNCHANGED notLinkVars

\* the computed bias kept when there is no link to check
NoLinkBiasKept(bias) == bias

\* line 372, bias_f = 0: the computed bias is dropped
NoLinkBias(bias) == 0

\* lines 371-372: no link to check
GcNoLinks ==
    /\ l_pc = "parallel"
    /\ Len(links_to_check) = 0
    /\ bias_f' = NoLinkBias(bias_f)
    /\ l_pc' = "done"
    /\ UNCHANGED <<model_f, ROIs, sparsity_factor, links_to_check, pending, shm,
                   shared_ll_r, shared_bias_r, shared_conv_flag, dev_raw, bias_r,
                   conv_flags, task_ll, var_thr, x_power, patch_idx>>
    /\ UNCHANGED notLinkVars

\* the values of a bias term in the model
BiasVals == {3}

\* what a task stores for a Python bool in the float buffer
AsFloat(b) == IF b THEN 1 ELSE 0

\* a task that writes the cell [i, j]
TaskCellTransposed(lnk) == <<lnk[2], lnk[1]>>

\* the cell of the shared buffers the task of link (j, i) writes (lines 442-444)
TaskCell(lnk) == <<lnk[1], lnk[2]>>

\* the outcomes of a task's reduced fit in the model, with max_iter = MaxIter:
\* the final log-likelihood and the number n of EM iterations run
TaskOutcomes == {[ll |-> 100, n |-> MaxIter - 1], [ll |-> 50, n |-> MaxIter]}

\* one task, _learn_reduced_model_parallel(link, ...): the reduced model of
\* the link is fitted and the three results are written to the link's cell
TaskRun ==
    /\ l_pc = "parallel"
    /\ \E t \in pending, out \in TaskOutcomes, b \in BiasVals :
         LET cell == TaskCell(links_to_check[t])
         IN  /\ shared_ll_r' = [shared_ll_r EXCEPT ![cell] = out.ll]
             /\ shared_bias_r' = [shared_bias_r EXCEPT ![cell] = b]
             /\ shared_conv_flag' =
                  [shared_conv_flag EXCEPT
                     ![cell] = AsFloat(ConvFlag([k \in 1..out.n |-> out.ll], MaxIter))]
             /\ task_ll' = [task_ll EXCEPT ![links_to_check[t]] = Some(out.ll)]
             /\ pending' = pending \ {t}
    /\ UNCHANGED <<l_pc, model_f, ROIs, sparsity_factor, links_to_check, shm, dev_raw,
                   bias_r, conv_flags, bias_f, var_thr, x_power, patch_idx>>
    /\ UNCHANGED notLinkVars

\* Deviance with the doubling of the reduced log-likelihood left out
DevianceUndoubled(links, ll_full, ll_r, n) ==
    [x \in MatIdx(n) |->
        IF \E t \in 1..Len(links) : links[t] = x
          THEN 2 * ll_full - ll_r[x]
          ELSE 0]

\* dev_raw[indices] = 2 * model_f.ll; dev_raw[indices] -= 2 * ll_r[indices]
\* with indices = tuple(zip(*links_to_check))   (lines 390-392)
Deviance(links, ll_full, ll_r, n) ==
    [x \in MatIdx(n) |->
        IF \E t \in 1..Len(links) : links[t] = x
          THEN 2 * ll_full - 2 * ll_r[x]
          ELSE 0]

\* the order in which _gc_extraction releases its buffers (line 383)
ReleaseOrder == <<"conv_flag", "bias_r", "f", "ll_r", "y">>

\* what the system does to the release of a buffer: nothing, or it makes
\* shm.close() or shm.unlink() of one buffer raise
ReleaseFaults ==
    {None, Some([buf |-> "f", op |-> "close"]), Some([buf |-> "f", op |-> "unlink"])}

\* the release loop of lines 383-388 (and of opt.py, lines 618-623):
\*   for shm in (...):
\*       shm.close()
\*       try: shm.unlink()
\*       except: print(...)
\* close() is outside the try statement: when it raises the loop is left and
\* the exception propagates; a raising unlink() is caught and the loop goes on
ReleaseAll(ord, flt) ==
    LET pos(b) == CHOOSE n \in 1..Len(ord) : ord[n] = b
        stop == IF ~IsNone(flt) /\ Val(flt).op = "close" THEN pos(Val(flt).buf)
                ELSE Len(ord) + 1
    IN  [raised |-> stop <= Len(ord),
         shm |-> [b \in {ord[n] : n \in 1..Len(ord)} |->
                    IF pos(b) >= stop THEN "created"
                    ELSE IF flt = Some([buf |-> b, op |-> "unlink"]) THEN "closed"
                    ELSE "unlinked"]]

\* lines 377-392 and the return: all tasks have joined
GcAggregate ==
    /\ l_pc = "parallel"
    /\ Len(links_to_check) > 0
    /\ pending = {}
    /\ bias_r' = shared_bias_r
    /\ conv_flags' = shared_conv_flag
    /\ \E flt \in ReleaseFaults :
         LET rel == ReleaseAll(ReleaseOrder, flt)
         IN  /\ shm' = rel.shm
             /\ IF rel.raised
                  THEN /\ l_pc' = "raised"
                       /\ dev_raw' = dev_raw
                  ELSE /\ l_pc' = "done"
                       /\ dev_raw' = Deviance(links_to_check, model_f.ll, shared_ll_r,
                                              NRegions)
    /\ UNCHANGED <<model_f, ROIs, sparsity_factor, links_to_check, pending,
                   shared_ll_r, shared_bias_r, shared_conv_flag, bias_f, task_ll,
                   var_thr, x_power, patch_idx>>
    /\ UNCHANGED notLinkVars

(***************************************************************************)
(* The cross-validated fit: NeuraLVARCV.fit (lines 546-654) and the tasks  *)
(* it spawns, one per split (NeuraLVARCV._cvfit, lines 476-544).           *)
(***************************************************************************)
\* the longest grid of regularization strengths
MaxGrid == 3

\* len(cvsplits): the number of splits
NFolds == 2

Folds == 0..(NFolds - 1)

\* the grids: the strengths 1 .. n in ascending or in descending order
Grids ==
    UNION {{[i \in 0..(n - 1) |-> i + 1], [i \in 0..(n - 1) |-> n - i]} : n \in 1..MaxGrid}

GridLen(g) == Cardinality(DOMAIN g)

CvMatIdx(n) == {0, 1} \X Folds \X (0..(n - 1))

PredIdx(n) == Folds \X (0..(n - 1))

\* what one split computes at one grid position (lines 532-541): the
\* held-out log-likelihood cv[0], the penalized norm lambda2 * ||a||_1 cv[1],
\* and the prediction (one sample)
FoldOutcomes ==
    {[ll |-> 1, pen |-> 0, pred |-> 1, a |-> 0],
     [ll |-> 0, pen |-> 1, pred |-> 0, a |-> 1],
     [ll |-> 0, pen |-> 1, pred |-> -1, a |-> -1]}

\* the sum over the splits of f[s]; the mean over axis 0 is this sum / NFolds
FoldSum(f) == SumSeq([k \in 1..NFolds |-> f[k - 1]])

\* mat[c].mean(axis=0), times NFolds
MeanOverFolds(mat, c, n) == [i \in 0..(n - 1) |-> FoldSum([sp \in Folds |-> mat[<<c, sp, i>>]])]

\* ndarray.argmax(): the first position of the largest value of f[0 .. n-1]
PyArgMax(f, n) ==
    CHOOSE i \in 0..(n - 1) :
      /\ \A j \in 0..(n - 1) : f[j] <= f[i]
      /\ \A j \in 0..(i - 1) : f[j] < f[i]

\* floats as rationals [num, den] with den >= 0: 0/0 is NaN, n/0 (n > 0) is inf
IsNaN(e) == e.num = 0 /\ e.den = 0

Inf == [num |-> 1, den |-> 0]

FloatLess(a, b) ==
    IF a.den = 0 THEN FALSE
    ELSE IF b.den = 0 THEN TRUE
    ELSE a.num * b.den < b.num * a.den

\* compute_es_criterion (lines 677-687): per grid position the squared
\* fluctuation of the splits' predictions about their mean over the squared
\* mean; numerator and denominator are both taken times NFolds^2
ComputeEsCriterion(pred, n) ==
    [j \in 0..(n - 1) |->
        LET total == FoldSum([sp \in Folds |-> pred[<<sp, j>>]])
        IN  [num |-> FoldSum([sp \in Folds |->
                                (NFolds * pred[<<sp, j>>] - total) * (NFolds * pred[<<sp, j>>] - total)]),
             den |-> total * total]]

\* np.nanargmin(es[:n]) with the largest in place of the smallest
NanArgMinAsMax(es, n) ==
    IF \A i \in 0..(n - 1) : IsNaN(es[i]) THEN None
    ELSE LET filled == [i \in 0..(n - 1) |-> IF IsNaN(es[i]) THEN Inf ELSE es[i]]
         IN  Some(CHOOSE i \in 0..(n - 1) :
                    /\ \A j \in 0..(n - 1) : ~FloatLess(filled[i], filled[j])
                    /\ \A j \in 0..(i - 1) : FloatLess(filled[j], filled[i]))

\* np.nanargmin(es[:n]): None when it raises ValueError (an empty or an
\* all-NaN slice); else NaN is replaced by inf and the first position of
\* the smallest value is returned
NanArgMin(es, n) ==
    IF \A i \in 0..(n - 1) : IsNaN(es[i]) THEN None
    ELSE LET filled == [i \in 0..(n - 1) |-> IF IsNaN(es[i]) THEN Inf ELSE es[i]]
         IN  Some(CHOOSE i \in 0..(n - 1) :
                    /\ \A j \in 0..(n - 1) : ~FloatLess(filled[j], filled[i])
                    /\ \A j \in 0..(i - 1) : FloatLess(filled[i], filled[j]))

\* lines 628-638: the boundary index and the position selected
SelectIndex(es, mse, n, es_used) ==
    IF es_used THEN PyArgMax(MeanOverFolds(mse, 0, n), n)
    ELSE PyArgMax(MeanOverFolds(mse, 1, n), n)

\* SelectBest with the first grid position taken when np.nanargmin raises
SelectBestFirstOnError(es, mse, n, es_used) ==
    LET idx == SelectIndex(es, mse, n, es_used)
    IN  IF es_used
          THEN LET k == NanArgMin(es, idx)
               IN  IF IsNone(k) THEN 0 ELSE Val(k)
          ELSE idx

SelectBest(es, mse, n, es_used) ==
    LET idx == SelectIndex(es, mse, n, es_used)
    IN  IF es_used
          THEN LET k == NanArgMin(es, idx)
               IN  IF IsNone(k) THEN idx ELSE Val(k)
          ELSE idx

\* the shared buffers NeuraLVARCV.fit creates (lines 597-601), in the order
\* in which it releases them (line 618)
CvReleaseOrder == <<"y", "f", "r", "cv", "pred">>

CvBuffers == {CvReleaseOrder[n] : n \in 1..Len(CvReleaseOrder)}

\* the handles a task _cvfit attaches (lines 506-510) and the ones it closes
\* before it returns (lines 542-543)
CvTaskAttaches == {"y", "f", "r", "cv", "pred"}

CvTaskCloses == {"y", "f", "r", "cv"}

\* a fit that is never warm-started
WarmStartNever(i, a_init, prev) == a_init

\* lines 524-525: the a_init of the fit at position i, prev being the a_ of
\* the fit before it in the same task
WarmStart(i, a_init, prev) == IF i > 0 THEN Some(prev) ELSE a_init

\* the tensor _fit returns (line 167) when every coefficient is v
FittedA(v) == UnravelA(ConstStacked(M, order, v), M, order)

\* the fits of one task, in grid order: what each was started from and what
\* it returned
TaskFits(out, n, a_init) ==
    [i \in 0..(n - 1) |->
        [a_init |-> WarmStart(i, a_init, FittedA(out[IF i > 0 THEN i - 1 ELSE 0].a)),
         a |-> FittedA(out[i].a)]]

\* NeuraLVARCV.fit up to the start of the tasks: lines 570-605
CvFitBegin ==
    /\ cv_pc = "start"
    /\ pc = "idle"
    /\ cv_pc' = "folds"
    /\ shared_cv_mat' = [x \in CvMatIdx(GridLen(cv_lambdas)) |-> 0]
    /\ shared_pred' = [x \in PredIdx(GridLen(cv_lambdas)) |-> 0]
    /\ cv_fits' = [x \in PredIdx(GridLen(cv_lambdas)) |-> None]
    /\ cv_shm' = [b \in CvBuffers |-> "created"]
    /\ cv_pending' = Folds
    /\ UNCHANGED <<cv_lambdas, use_es, mse_path, es_path, index, best_lambda, cv_a_init,
                   cv_open>>
    /\ UNCHANGED notCvVars

\* one task _cvfit(split, ...): a fit per grid position, its criteria and its
\* prediction written to the shared buffers; a fit that raises ends the
\* cross-validation
CvFitTask ==
    /\ cv_pc = "folds"
    /\ \E split \in cv_pending :
         \/ /\ cv_pc' = "raised"
            /\ cv_open' = [cv_open EXCEPT ![split] = CvTaskAttaches]
            /\ UNCHANGED <<shared_cv_mat, shared_pred, cv_pending, cv_fits>>
         \/ \E out \in [DOMAIN cv_lambdas -> FoldOutcomes] :
              /\ shared_cv_mat' =
                   [x \in DOMAIN shared_cv_mat |->
                      IF x[2] # split THEN shared_cv_mat[x]
                      ELSE IF x[1] = 0 THEN out[x[3]].ll ELSE out[x[3]].pen]
              /\ shared_pred' =
                   [x \in DOMAIN shared_pred |->
                      IF x[1] # split THEN shared_pred[x] ELSE out[x[2]].pred]
              /\ cv_fits' =
                   [x \in DOMAIN cv_fits |->
                      IF x[1] # split THEN cv_fits[x]
                      ELSE Some(TaskFits(out, GridLen(cv_lambdas), cv_a_init)[x[2]])]
              /\ cv_open' = [cv_open EXCEPT ![split] = CvTaskAttaches \ CvTaskCloses]
              /\ cv_pending' = cv_pending \ {split}
              /\ cv_pc' = cv_pc
    /\ UNCHANGED <<cv_lambdas, use_es, mse_path, es_path, index, best_lambda, cv_a_init,
                   cv_shm>>
    /\ UNCHANGED notCvVars

\* the tasks are done: lines 609-623, the results are taken from the shared
\* buffers and the buffers are released
CvCollect ==
    /\ cv_pc = "folds"
    /\ cv_pending = {}
    /\ mse_path' = Some(shared_cv_mat)
    /\ es_path' = Some(ComputeEsCriterion(shared_pred, GridLen(cv_lambdas)))
    /\ \E flt \in ReleaseFaults :
         LET rel == ReleaseAll(CvReleaseOrder, flt)
         IN  /\ cv_shm' = rel.shm
             /\ cv_pc' = IF rel.raised THEN "raised" ELSE "collected"
    /\ UNCHANGED <<cv_lambdas, use_es, shared_cv_mat, shared_pred, cv_pending, index,
                   best_lambda, cv_a_init, cv_fits, cv_open>>
    /\ UNCHANGED notCvVars

\* the selection (lines 625-638) and the call of the final _fit (lines
\* 640-642)
CvSelect ==
    /\ cv_pc = "collected"
    /\ LET n == GridLen(cv_lambdas)
           best == cv_lambdas[SelectBest(Val(es_path), Val(mse_path), n, use_es)]
       IN  /\ index' = Some(SelectIndex(Val(es_path), Val(mse_path), n, use_es))
           /\ best_lambda' = Some(best)
           /\ FitCall("cv", None, restriction, cv_a_init, ConstQ(M, 1), Some(best), None,
                      None, 1, 1)
    /\ cv_pc' = "refit"
    /\ UNCHANGED <<cv_lambdas, use_es, shared_cv_mat, shared_pred, cv_pending, mse_path,
                   es_path, cv_a_init, cv_fits, cv_shm, cv_open>>
    /\ UNCHANGED <<linkVars, sskfVars>>

CvOff ==
    /\ cv_pc = "off"
    /\ cv_lambdas = [i \in 0..0 |-> 1]
    /\ use_es = FALSE
    /\ shared_cv_mat = [x \in CvMatIdx(1) |-> 0]
    /\ shared_pred = [x \in PredIdx(1) |-> 0]
    /\ cv_pending = {}
    /\ cv_fits = [x \in PredIdx(1) |-> None]
    /\ cv_shm = [b \in CvBuffers |-> "none"]
    /\ cv_open = [sp \in Folds |-> {}]
    /\ cv_a_init = None
    /\ mse_path = None
    /\ es_path = None
    /\ index = None
    /\ best_lambda = None

(***************************************************************************)
(* The smoothers of e_step.py: sskf (lines 6-128), sskfcv (lines 131-249)  *)
(* and sskf_prediction (lines 252-350), for one state and one channel.     *)
(* The arrays _x and x_ are np.empty or the caller's xs: their contents at *)
(* the start are arbitrary.                                                *)
(***************************************************************************)
\* the largest number of samples t
MaxT == 2

Variants == {"sskf", "sskfcv", "sskf_prediction"}

\* the four solver configurations, in the order of the source text
Unbalanced == "solve_discrete_are(balanced=False)"
Balanced == "solve_discrete_are(balanced=True)"
Stabilizing == "control.dare(stabilizing=True)"
NonStabilizing == "control.dare(stabilizing=False)"

SolverConfigs == {Unbalanced, Balanced, Stabilizing, NonStabilizing}

\* what a call of a solver does: return, or raise one of the two exceptions
\* the try statement names, or another one
SolverOutcomes == {"ok", "LinAlgError", "ValueError", "other"}

\* the try statement of lines 48-56 (sskf), 177-185 (sskfcv) and 288-296
\* (sskf_prediction), given what each configuration would do: the
\* configurations called, in order, and whether _s is assigned.  An exception
\* raised inside an except clause is not handled by the clauses beside it.
RiccatiChain(does) ==
    IF does[Unbalanced] = "ok" THEN [tried |-> <<Unbalanced>>, solved |-> TRUE]
    ELSE IF does[Unbalanced] = "LinAlgError"
      THEN [tried |-> <<Unbalanced, Balanced>>, solved |-> does[Balanced] = "ok"]
    ELSE IF does[Unbalanced] = "ValueError"
      THEN IF does[Stabilizing] = "ok"
             THEN [tried |-> <<Unbalanced, Stabilizing>>, solved |-> TRUE]
           ELSE IF does[Stabilizing] = "ValueError"
             THEN [tried |-> <<Unbalanced, Stabilizing, NonStabilizing>>,
                   solved |-> does[NonStabilizing] = "ok"]
           ELSE [tried |-> <<Unbalanced, Stabilizing>>, solved |-> FALSE]
    ELSE [tried |-> <<Unbalanced>>, solved |-> FALSE]

SampleCount == Len(sskf_y)

\* row i of _x in the forward pass with row 0 computed like the others (from
\* x_[i - 1], which for i = 0 is the last row)
PredictedRowNoPrior(i, a, x_rows) == a * x_rows[IF i = 0 THEN Len(x_rows) ELSE i]

\* row i of _x in the forward pass: 0 for i = 0, else a . x_[i - 1]
\* (rows are kept in sequences, sample i at position i + 1)
PredictedRow(i, a, x_rows) == IF i = 0 THEN 0 ELSE a * x_rows[i]

\* the Riccati solve and the gains: lines 48-79.  After _s is assigned the
\* factorizations may still raise, and sskf raises ValueError when diag(s_)
\* is not positive.
SskfSolve ==
    /\ sskf_pc = "riccati"
    /\ \E does \in [SolverConfigs -> SolverOutcomes], later_error \in BOOLEAN :
         LET chain == RiccatiChain(does)
         IN  /\ tried' = chain.tried
             /\ sskf_pc' = IF ~chain.solved THEN "riccati_failed"
                           ELSE IF later_error THEN "raised"
                           ELSE "forward"
    /\ sskf_i' = 0
    /\ UNCHANGED <<variant, sskf_y, gains, _x, x_, sskf_pred, forward_x>>
    /\ UNCHANGED notSskfVars

\* one iteration of the forward loop: lines 90-114, 206-229, 325-349
SskfForward ==
    /\ sskf_pc = "forward"
    /\ sskf_i < SampleCount
    /\ LET i == sskf_i
           row == PredictedRow(i, gains.a, x_)
           innov == sskf_y[i + 1] - gains.f * row
       IN  /\ _x' = [_x EXCEPT ![i + 1] = row]
           /\ x_' = [x_ EXCEPT ![i + 1] = row + gains.k * innov]
           /\ sskf_pred' = IF variant = "sskf_prediction"
                             THEN [sskf_pred EXCEPT ![i + 1] = gains.f * row]
                             ELSE sskf_pred
           /\ sskf_i' = i + 1
    /\ UNCHANGED <<sskf_pc, variant, tried, sskf_y, gains, forward_x>>
    /\ UNCHANGED notSskfVars

\* the forward loop is over: sskf_prediction returns pred (line 350), sskf
\* starts its backward loop at i = t - 2 (line 117), sskfcv sets x_[-1] = 0
\* and starts its backward loop at i = t - 1 (lines 233-234)
SskfForwardDone ==
    /\ sskf_pc = "forward"
    /\ sskf_i = SampleCount
    /\ forward_x' = Some(_x)
    /\ CASE variant = "sskf_prediction" ->
              sskf_pc' = "done" /\ UNCHANGED <<x_, sskf_i>>
         [] variant = "sskf" ->
              /\ sskf_pc' = "backward"
              /\ sskf_i' = SampleCount - 2
              /\ UNCHANGED x_
         [] variant = "sskfcv" ->
              /\ sskf_pc' = "backward"
              /\ sskf_i' = SampleCount - 1
              /\ x_' = [x_ EXCEPT ![SampleCount] = 0]
    /\ UNCHANGED <<variant, tried, sskf_y, gains, _x, sskf_pred>>
    /\ UNCHANGED notSskfVars

\* one iteration of the backward loop of sskf (lines 117-127:
\* x_[i] += b . (x_[i + 1] - _x[i + 1])) or of sskfcv (lines 230-237, with
\* temp4[i] = y[i] - f . _x[i] for a unit innovation covariance and
\* l = a . (1 - k . f): x_[i - 1] = f . temp4[i] + l . x_[i] for i > 0)
SskfBackward ==
    /\ sskf_pc = "backward"
    /\ sskf_i >= 0
    /\ LET i == sskf_i
       IN  IF variant = "sskf"
             THEN x_' = [x_ EXCEPT ![i + 1] = @ + gains.b * (x_[i + 2] - _x[i + 2])]
             ELSE x_' = IF i > 0
                          THEN [x_ EXCEPT ![i] = gains.f * (sskf_y[i + 1] - gains.f * _x[i + 1])
                                                   + gains.a * (1 - gains.k * gains.f) * x_[i + 1]]
                          ELSE x_
    /\ sskf_i' = sskf_i - 1
    /\ UNCHANGED <<sskf_pc, variant, tried, sskf_y, gains, _x, sskf_pred, forward_x>>
    /\ UNCHANGED notSskfVars

\* the backward loop is over: the smoother returns (lines 128, 238-239)
SskfReturn ==
    /\ sskf_pc = "backward"
    /\ sskf_i < 0
    /\ sskf_pc' = "done"
    /\ UNCHANGED <<variant, tried, sskf_y, gains, _x, x_, sskf_pred, sskf_i, forward_x>>
    /\ UNCHANGED notSskfVars

SskfOff ==
    /\ sskf_pc = "off"
    /\ variant = "sskf"
    /\ tried = << >>
    /\ sskf_y = <<0>>
    /\ gains = [a |-> 1, f |-> 1, k |-> 1, b |-> 1]
    /\ _x = <<0>>
    /\ x_ = <<0>>
    /\ sskf_pred = <<0>>
    /\ sskf_i = 0
    /\ forward_x = None

\* a model fitted earlier, with no restriction
PriorFit(m, p) ==
    [parameters |-> Some([a |-> ConstTensor(m, p, 2), q |-> ConstQ(m, 2)]),
     ll |-> Some(100), lambda_ |-> Some(1), model_lls |-> <<50, 100>>]

Unfitted == [parameters |-> None, ll |-> None, lambda_ |-> None, model_lls |-> << >>]

\* alpha = 0.0, beta = 0.0: the defaults of fit and _fit (lines 66, 313)
NoPrior ==
    /\ prior_arg = [alpha |-> [num |-> 0, den |-> 1], beta |-> [num |-> 0, den |-> 1]]
    /\ t_ss = 2

FitIdle ==
    /\ prior = prior_arg
    /\ restriction = None
    /\ model_zeroed = None
    /\ pc = "idle"
    /\ caller = "none"
    /\ link = None
    /\ call = [lambda2 |-> None, lb |-> None, la |-> None]
    /\ args = FitPassesToFit(None, None, None, 1, 1)
    /\ zeroed_index = None
    /\ a_upper = ConstStacked(M, order, 0)
    /\ q_upper = ConstQ(M, 1)
    /\ a_ = None
    /\ warned = None
    /\ it = 0
    /\ cyc = 0
    /\ lls = << >>
    /\ rel_q_small = None
    /\ policies = {}
    /\ n_estep = 0
    /\ broke = FALSE
    /\ conv_flag = None
    /\ before = Fields

FieldsAre(f) ==
    /\ parameters = f.parameters
    /\ ll = f.ll
    /\ lambda_ = f.lambda_
    /\ model_lls = f.model_lls

LinkOff ==
    /\ l_pc = "off"
    /\ model_f = [a |-> ConstTensor(M, order, 0), q |-> ConstQ(M, 1), ll |-> 0]
    /\ ROIs = << >>
    /\ sparsity_factor = [num |-> 0, den |-> 1]
    /\ links_to_check = << >>
    /\ pending = {}
    /\ shm = [b \in Buffers |-> "none"]
    /\ shared_ll_r = ConstMat(NRegions, 0)
    /\ shared_bias_r = ConstMat(NRegions, 0)
    /\ shared_conv_flag = ConstMat(NRegions, 0)
    /\ dev_raw = ConstMat(NRegions, 0)
    /\ bias_r = ConstMat(NRegions, 0)
    /\ conv_flags = ConstMat(NRegions, 0)
    /\ bias_f = 0
    /\ task_ll = ConstMat(NRegions, None)
    /\ var_thr = None
    /\ x_power = [k \in 0..(M - 1) |-> 1]
    /\ patch_idx = << >>

\* a freshly constructed NeuraLVAR(order, n_eigenmodes = ...)
Init ==
    /\ n_eigenmodes \in {1, 2}
    /\ order \in {1, 2}
    /\ FieldsAre(Unfitted)
    /\ NoPrior
    /\ FitIdle
    /\ LinkOff
    /\ CvOff
    /\ SskfOff

\* a NeuraLVAR object, freshly constructed or fitted before
InitRestriction ==
    /\ n_eigenmodes \in {1, 2}
    /\ order \in {1, 2}
    /\ \E f \in {Unfitted, PriorFit(M, order)} : FieldsAre(f)
    /\ NoPrior
    /\ FitIdle
    /\ LinkOff
    /\ CvOff
    /\ SskfOff

\* the lists a caller passes as ROIs: the lists of distinct regions
RECURSIVE RoiLists(_)
RoiLists(n) ==
    IF n = 0 THEN {<< >>}
    ELSE LET shorter == RoiLists(n - 1)
         IN  shorter \cup
             {Append(l, r) : l \in {x \in shorter : Len(x) = n - 1},
                             r \in 0..(NRegions - 1)}

DistinctRoiLists ==
    {l \in RoiLists(NRegions) :
        Len(l) > 0 /\ \A u, w \in 1..Len(l) : u # w => l[u] # l[w]}

\* the coefficient tensors of the full models: d on the diagonal, w between
\* the eigenmodes of one region, and between two regions c_up or c_lo
\* (target below or above the source) for equal eigenmode positions and o
\* for unequal ones
FullTensor(m, p, emod, d, w, c_up, c_lo, o) ==
    [x \in TensorIdx(m, p) |->
        IF x[2] = x[3] THEN d
        ELSE IF x[2] \div emod = x[3] \div emod THEN w
        ELSE IF x[2] % emod # x[3] % emod THEN o
        ELSE IF x[2] < x[3] THEN c_up ELSE c_lo]

FullModels ==
    {[a |-> FullTensor(M, order, n_eigenmodes, d, 1, c_up, c_lo, o),
      q |-> [k \in 0..(M - 1) |-> IF k \div n_eigenmodes = 0 THEN 1 ELSE q1],
      ll |-> 100] :
        d \in {0, 1}, c_up \in {0, 1, -3}, c_lo \in {0, 1}, o \in {0, 5}, q1 \in {1, 2}}

SparsityFactors ==
    {[num |-> 0, den |-> 1], [num |-> 1, den |-> 2], [num |-> 1, den |-> 1],
     [num |-> 2, den |-> 1]}

\* _gc_extraction with the full model fitted and its bias computed (line 319)
InitLink ==
    /\ n_eigenmodes \in {1, 2}
    /\ order \in {1, 2}
    /\ FieldsAre(Unfitted)
    /\ NoPrior
    /\ FitIdle
    /\ CvOff
    /\ SskfOff
    /\ l_pc = "start"
    /\ model_f \in FullModels
    /\ ROIs \in DistinctRoiLists
    /\ sparsity_factor \in SparsityFactors
    /\ links_to_check = << >>
    /\ pending = {}
    /\ shm = [b \in Buffers |-> "none"]
    /\ shared_ll_r = ConstMat(NRegions, 0)
    /\ shared_bias_r = ConstMat(NRegions, 0)
    /\ shared_conv_flag = ConstMat(NRegions, 0)
    /\ dev_raw = ConstMat(NRegions, 0)
    /\ bias_r = ConstMat(NRegions, 0)
    /\ conv_flags = ConstMat(NRegions, 0)
    /\ bias_f \in BiasVals
    /\ task_ll = ConstMat(NRegions, None)
    /\ var_thr = None
    /\ x_power = [k \in 0..(M - 1) |-> 1]
    /\ patch_idx = ROIs

\* the values of var_thr: 1 (the default, None) and two fractions
VarThrs == {None, Some([num |-> 1, den |-> 2]), Some([num |-> 9, den |-> 10])}

\* _gc_extraction with the full model fitted and any var_thr
InitPrefilter ==
    /\ n_eigenmodes \in {1, 2}
    /\ order = 1
    /\ FieldsAre(Unfitted)
    /\ NoPrior
    /\ FitIdle
    /\ CvOff
    /\ SskfOff
    /\ l_pc = "start"
    /\ model_f \in FullModels
    /\ ROIs \in DistinctRoiLists
    /\ sparsity_factor = [num |-> 0, den |-> 1]
    /\ links_to_check = << >>
    /\ pending = {}
    /\ shm = [b \in Buffers |-> "none"]
    /\ shared_ll_r = ConstMat(NRegions, 0)
    /\ shared_bias_r = ConstMat(NRegions, 0)
    /\ shared_conv_flag = ConstMat(NRegions, 0)
    /\ dev_raw = ConstMat(NRegions, 0)
    /\ bias_r = ConstMat(NRegions, 0)
    /\ conv_flags = ConstMat(NRegions, 0)
    /\ bias_f \in BiasVals
    /\ task_ll = ConstMat(NRegions, None)
    /\ var_thr \in VarThrs
    /\ x_power \in [0..(M - 1) -> {0, 1}]
    /\ patch_idx = ROIs

Next ==
    \/ PublicFit
    \/ LearnReducedModel
    \/ EStep
    \/ MStepBegin
    \/ CyclicPass
    \/ FitReturn
    \/ LearnReducedReturn

Spec == Init /\ [][Next]_vars

\* fits called with alpha and beta, on data of t samples
InitPrior ==
    /\ n_eigenmodes = 1
    /\ order = 1
    /\ prior_arg \in {[alpha |-> [num |-> 0, den |-> 1], beta |-> [num |-> 1, den |-> 1]],
                      [alpha |-> [num |-> 1, den |-> 2], beta |-> [num |-> 1, den |-> 1]]}
    /\ t_ss \in {2, 4}
    /\ FieldsAre(Unfitted)
    /\ FitIdle
    /\ LinkOff
    /\ CvOff
    /\ SskfOff

SpecPrior == InitPrior /\ [][Next]_vars

\* a freshly constructed NeuraLVAR(order = 1, n_eigenmodes = 1); a call that
\* has started runs on: _fit is sequential code, each of its steps is taken
\* once the one before has returned.  Nothing obliges a caller to call.
InitEm ==
    /\ n_eigenmodes = 1
    /\ order = 1
    /\ FieldsAre(Unfitted)
    /\ NoPrior
    /\ FitIdle
    /\ LinkOff
    /\ CvOff
    /\ SskfOff

SpecFair ==
    /\ InitEm
    /\ [][Next]_vars
    /\ WF_vars(EStep)
    /\ WF_vars(MStepBegin)
    /\ WF_vars(CyclicPass)
    /\ WF_vars(FitReturn)
    /\ WF_vars(LearnReducedReturn)

NextRestriction ==
    \/ PublicFitAnyString
    \/ EStep
    \/ MStepBegin
    \/ CyclicPass
    \/ FitReturn

SpecRestriction == InitRestriction /\ [][NextRestriction]_vars

\* NeuraLVARCV(order, ..., cv).fit(y, f, r, lambda_range, use_es = ...) is called
InitCV ==
    /\ n_eigenmodes = 1
    /\ order = 1
    /\ FieldsAre(Unfitted)
    /\ NoPrior
    /\ FitIdle
    /\ LinkOff
    /\ SskfOff
    /\ cv_pc = "start"
    /\ cv_lambdas \in Grids
    /\ cv_a_init \in {None, Some(ConstTensor(M, order, 1))}
    /\ use_es \in BOOLEAN
    /\ shared_cv_mat = [x \in CvMatIdx(1) |-> 0]
    /\ shared_pred = [x \in PredIdx(1) |-> 0]
    /\ cv_pending = {}
    /\ cv_fits = [x \in PredIdx(1) |-> None]
    /\ cv_shm = [b \in CvBuffers |-> "none"]
    /\ cv_open = [sp \in Folds |-> {}]
    /\ mse_path = None
    /\ es_path = None
    /\ index = None
    /\ best_lambda = None

NextCV ==
    \/ CvFitBegin
    \/ CvFitTask
    \/ CvCollect
    \/ CvSelect

SpecCV == InitCV /\ [][NextCV]_vars

\* the contents of an array that was allocated and not written
Garbage == {0, 7}

\* a smoother is called on t >= 1 samples
InitSskf ==
    /\ n_eigenmodes = 1
    /\ order = 1
    /\ FieldsAre(Unfitted)
    /\ NoPrior
    /\ FitIdle
    /\ LinkOff
    /\ CvOff
    /\ sskf_pc = "riccati"
    /\ variant \in Variants
    /\ tried = << >>
    /\ \E t \in 1..MaxT :
         /\ sskf_y \in [1..t -> {1, 2}]
         /\ _x \in [1..t -> Garbage]
         /\ \E g \in Garbage :
              /\ x_ = [u \in 1..t |-> g]
              /\ sskf_pred = [u \in 1..t |-> g]
    /\ gains \in {[a |-> ca, f |-> cf, k |-> 1, b |-> 1] : ca \in {1, 2}, cf \in {1, 2}}
    /\ sskf_i = 0
    /\ forward_x = None

NextSskf ==
    \/ SskfSolve
    \/ SskfForward
    \/ SskfForwardDone
    \/ SskfBackward
    \/ SskfReturn

SpecSskf == InitSskf /\ [][NextSskf]_vars

NextLink ==
    \/ GcEnumerate
    \/ GcNoLinks
    \/ TaskRun
    \/ GcAggregate

SpecLink == InitLink /\ [][NextLink]_vars

SpecPrefilter == InitPrefilter /\ [][NextLink]_vars


(***************************************************************************)
(* Properties of the link stage, checked under SpecLink.                   *)
(***************************************************************************)
InRois(r) == \E n \in 1..Len(ROIs) : ROIs[n] = r

FullSparsity == Sparsity(model_f.a, model_f.q, M, order)

\* the pair (source i, target j) is enumerated and passes the pre-filter
Survives(i, j) ==
    /\ InRois(i)
    /\ InRois(j)
    /\ i # j
    /\ ~(CrossMass(FullSparsity, i, j, n_eigenmodes) * sparsity_factor.den
           <= sparsity_factor.num * SelfMass(FullSparsity, j, n_eigenmodes))

IsLinkToCheck(j, i) == \E t \in 1..Len(links_to_check) : links_to_check[t] = <<j, i>>

\* C1: when _gc_extraction has returned, deviance[j, i] is twice the full
\* model's log-likelihood minus the log-likelihood the task of link i -> j
\* returned, for every surviving pair, and 0 in every other cell.
C1_Deviance ==
    l_pc = "done" =>
      \A x \in MatIdx(NRegions) :
        IF Survives(x[2], x[1])
          THEN /\ ~IsNone(task_ll[x])
               /\ dev_raw[x] = 2 * (model_f.ll - Val(task_ll[x]))
          ELSE dev_raw[x] = 0

C1_Witness ==
    /\ l_pc = "done"
    /\ Len(links_to_check) = 1
    /\ Len(ROIs) = 2
    /\ \E x \in MatIdx(NRegions) : Survives(x[2], x[1]) /\ dev_raw[x] = 100

\* C4 (as claimed): with sparsity_factor = 0 every ordered pair of distinct
\* candidate regions is a link to check.
C4_AllPairsRetained ==
    (l_pc # "start" /\ sparsity_factor.num = 0) =>
      /\ Len(links_to_check) = Len(ROIs) * (Len(ROIs) - 1)
      /\ \A i, j \in 0..(NRegions - 1) :
           (InRois(i) /\ InRois(j) /\ i # j) => IsLinkToCheck(j, i)

Block(r) == {r * n_eigenmodes + e : e \in 0..(n_eigenmodes - 1)}

Lags == 0..(order - 1)

\* the cells of the stacked matrix holding the coefficients of every lag
\* from the source indices srcs into the target indices tgts
LagCells(srcs, tgts) == {<<t, k * M + src>> : t \in tgts, src \in srcs, k \in Lags}

\* C2 (as claimed): the convergence flag of a reduced model is true exactly
\* when its EM loop left through the convergence check, and false when the
\* loop ran to max_iter.
C2_FlagIffConverged ==
    (caller = "reduced" /\ pc = "done") => (Val(conv_flag) = broke)

\* C3 (as claimed): in the fit of the reduced model of link i -> j, the
\* matrix handed to the smoother and the fitted A hold 0 in every lag
\* coefficient from every index of block i into every index of block j.
C3_BlockZeroEveryIteration ==
    (caller = "reduced" /\ ~IsNone(a_)) =>
      LET i == Val(link)[1]
          j == Val(link)[2]
      IN  /\ \A x \in LagCells(Block(i), Block(j)) : Val(a_)[x] = 0
          /\ pc = "done" =>
               \A t \in Block(j), src \in Block(i), k \in Lags :
                 Val(parameters).a[<<k, t, src>>] = 0

\* the string is of the form i1,i2,...->j1,j2,...: one '->' between two
\* comma-separated lists of integers
IsIntList(t) ==
    /\ Len(t) > 0
    /\ \A k \in 1..Len(t) :
         \/ IsDigit(t[k])
         \/ /\ t[k] = ","
            /\ k > 1 /\ k < Len(t)
            /\ t[k + 1] # ","
         \/ /\ t[k] = "-"
            /\ k = 1 \/ t[k - 1] = ","
            /\ k < Len(t) /\ IsDigit(t[k + 1])

WellFormed(str) ==
    \E k \in 1..(Len(str) - 1) :
      /\ str[k] = "-"
      /\ str[k + 1] = ">"
      /\ IsIntList(Take(str, k - 1))
      /\ IsIntList(Drop(str, k + 1))

\* the indices a well-formed string names, sources and targets together
NamedIndices(str) ==
    LET parts == ReSplit(<<"-", ">">>, str)
        srcs == Val(PyInts(ReSplit(<<",">>, parts[1])))
        tgts == Val(PyInts(ReSplit(<<",">>, parts[2])))
    IN  [srcs |-> {srcs[n] : n \in 1..Len(srcs)}, tgts |-> {tgts[n] : n \in 1..Len(tgts)}]

\* C6 (as claimed): a fit whose restriction names an index outside 0..m-1
\* raises before any E-step and builds no zeroed index.
C6_OutOfRangeRejected ==
    ( /\ caller = "public"
      /\ ~IsNone(restriction)
      /\ WellFormed(Val(restriction))
      /\ \E v \in NamedIndices(Val(restriction)).srcs \cup NamedIndices(Val(restriction)).tgts :
           v < 0 \/ v >= M )
    => (pc = "raised" /\ n_estep = 0 /\ IsNone(zeroed_index))

\* C7 (as claimed): fit called with lambda2 and with the pair (lb, la)
\* raises and fits nothing.
C7_ConflictRejected ==
    ( /\ caller = "public"
      /\ ~IsNone(call.lambda2)
      /\ ~IsNone(call.lb)
      /\ ~IsNone(call.la) )
    => (pc = "raised" /\ n_estep = 0)

\* C8: a fit called with a restriction string that is not of the form
\* i1,i2,...->j1,j2,... raises before any E-step and leaves the model's
\* parameters, log-likelihood and selected strength as they were.
C8_MalformedRejected ==
    ( /\ caller = "public"
      /\ ~IsNone(restriction)
      /\ ~WellFormed(Val(restriction)) )
    => (pc = "raised" /\ n_estep = 0 /\ Fields = before)

C8_Witness ==
    /\ pc = "raised"
    /\ restriction = Some(<<"0", ",", "a", "-", ">">>)
    /\ ~IsNone(parameters)
    /\ Fields = before

\* C9 (as claimed): when fit is given the pair (lb, la), every coefficient
\* update of the fit uses the independent-diagonal policy.
C9_IndependentPolicyUsed ==
    ( /\ caller = "public"
      /\ ~IsNone(call.lb)
      /\ ~IsNone(call.la) )
    => policies \subseteq {"indepdiag"}

\* the cells the zeroed index names
ZeroedCells == {<<Val(zeroed_index).x[n], Val(zeroed_index).y[n]>> :
                  n \in 1..Len(Val(zeroed_index).x)}

\* C10 (as claimed): the public fit expands every index k of the
\* restriction string to the indices k*E .. k*E+E-1, and the zero mask holds
\* every lag from every index of a source block into every index of a target
\* block.
C10_PublicFitExpands ==
    (caller = "public" /\ ~IsNone(zeroed_index)) =>
      LET named == NamedIndices(Val(restriction))
      IN  ZeroedCells = LagCells(UNION {Block(k) : k \in named.srcs},
                                 UNION {Block(k) : k \in named.tgts})

\* C10 (amended): the fit takes every index of the restriction string as one
\* state index, and the zero mask holds every lag from every named source
\* index into every named target index.  _learn_reduced_model expands the
\* regions i and j to their blocks before it writes the string, so the zero
\* mask of the reduced model of link i -> j holds every lag from every index
\* of block i into every index of block j.
C10_CallerExpands ==
    ~IsNone(zeroed_index) =>
      /\ Len(Val(zeroed_index).x) = Len(Val(zeroed_index).y)
      /\ caller = "public" =>
           LET named == NamedIndices(Val(restriction))
           IN  ZeroedCells = LagCells(named.srcs, named.tgts)
      /\ caller = "reduced" =>
           ZeroedCells = LagCells(Block(Val(link)[1]), Block(Val(link)[2]))

C10_Witness ==
    /\ caller = "public"
    /\ pc = "done"
    /\ n_eigenmodes = 2
    /\ order = 2
    /\ restriction = Some(<<"0", "-", ">", "1">>)
    /\ ZeroedCells = {<<1, 0>>, <<1, 4>>}


(***************************************************************************)
(* Properties of the selection of the regularization strength, checked     *)
(* under SpecCV.                                                           *)
(***************************************************************************)
GridPositions == 0..(GridLen(cv_lambdas) - 1)

\* the across-fold mean (times NFolds) of criterion c at grid position i
CriterionMean(c, i) == FoldSum([sp \in Folds |-> Val(mse_path)[<<c, sp, i>>]])

\* the stability value at position i, NaN counted as +inf
EsFilled(i) == IF IsNaN(Val(es_path)[i]) THEN Inf ELSE Val(es_path)[i]

\* k has the smallest stability value of the positions in cand
EsMinimizer(k, cand) ==
    /\ k \in cand
    /\ ~IsNaN(Val(es_path)[k])
    /\ \A j \in cand : ~IsNaN(Val(es_path)[j]) => ~FloatLess(Val(es_path)[j], Val(es_path)[k])

\* C11 (as claimed): with use_es, the selected strength is that of a minimizer
\* of the stability statistic over the grid points whose strength is not larger
\* than that of the grid point maximizing the across-fold mean of the
\* penalized-norm criterion, when one of them has a valid stability value.
C11_EsOverNoSparser ==
    (cv_pc = "refit" /\ use_es) =>
      \E b \in GridPositions :
        /\ \A j \in GridPositions : CriterionMean(1, j) <= CriterionMean(1, b)
        /\ LET cand == {i \in GridPositions : cv_lambdas[i] <= cv_lambdas[b]}
           IN  (\E i \in cand : ~IsNaN(Val(es_path)[i])) =>
                 \E k \in cand : EsMinimizer(k, cand) /\ best_lambda = Some(cv_lambdas[k])

\* C11 (amended): with use_es, the boundary is the first grid position
\* maximizing the across-fold mean of the held-out log-likelihood criterion
\* (cv_mat[0]); the candidates are the grid positions before the boundary in the
\* order of lambda_range, the boundary itself not among them; when a candidate
\* has a stability value that is not NaN, the selected strength is that of the
\* first candidate with the smallest stability value, NaN counted as +inf;
\* otherwise it is the strength of the boundary.
C11_EsBeforeBoundary ==
    (cv_pc = "refit" /\ use_es) =>
      LET b == Val(index)
          cand == 0..(b - 1)
      IN  /\ b \in GridPositions
          /\ \A j \in GridPositions : CriterionMean(0, j) <= CriterionMean(0, b)
          /\ \A j \in cand : CriterionMean(0, j) < CriterionMean(0, b)
          /\ IF \E i \in cand : ~IsNaN(Val(es_path)[i])
               THEN \E k \in cand :
                      /\ best_lambda = Some(cv_lambdas[k])
                      /\ \A j \in cand : ~FloatLess(EsFilled(j), EsFilled(k))
                      /\ \A j \in 0..(k - 1) : FloatLess(EsFilled(k), EsFilled(j))
               ELSE best_lambda = Some(cv_lambdas[b])

C11_Witness ==
    /\ cv_pc = "refit"
    /\ use_es
    /\ index = Some(2)
    /\ ~IsNaN(Val(es_path)[0])
    /\ FloatLess(Val(es_path)[1], Val(es_path)[0])
    /\ best_lambda = Some(cv_lambdas[1])
    /\ PyArgMax([i \in GridPositions |-> CriterionMean(1, i)], GridLen(cv_lambdas)) = 0

\* C12: with use_es, when no grid position before the boundary has a stability
\* value that is not NaN (there is none, or all are NaN), the selection does
\* not fail: the strength of the boundary is selected and the final _fit is
\* called with it.
C12_FallbackToBoundary ==
    ( /\ cv_pc = "refit"
      /\ use_es
      /\ \A i \in 0..(Val(index) - 1) : IsNaN(Val(es_path)[i]) )
    => /\ best_lambda = Some(cv_lambdas[Val(index)])
       /\ pc = "estep"
       /\ caller = "cv"
       /\ args.lambda2 = best_lambda

C12_Witness ==
    /\ cv_pc = "refit"
    /\ use_es
    /\ index = Some(2)
    /\ IsNaN(Val(es_path)[0])
    /\ IsNaN(Val(es_path)[1])
    /\ best_lambda = Some(cv_lambdas[2])
    /\ pc = "estep"


(***************************************************************************)
(* The power pre-filter of the link stage, checked under SpecPrefilter.    *)
(***************************************************************************)
InPatchIdx(r) == \E n \in 1..Len(patch_idx) : patch_idx[n] = r

C14_PredictedRowZero ==
    /\ ( \/ sskf_pc \in {"backward", "done"}
         \/ sskf_pc = "forward" /\ sskf_i > 0 ) => _x[1] = 0
    /\ (sskf_pc = "done" /\ variant = "sskf_prediction") => sskf_pred[1] = 0
    /\ sskf_pc \in {"backward", "done"} => forward_x = Some(_x)

C14_Witness ==
    /\ sskf_pc = "done"
    /\ variant = "sskf"
    /\ SampleCount = 2
    /\ _x[1] = 0
    /\ _x[2] # 0
    /\ x_[1] # sskf_y[1]

\* the four configurations in the order of the fallback chain
ChainOrder == <<Unbalanced, Balanced, Stabilizing, NonStabilizing>>

\* C19 (as claimed): the configurations tried are the first ones of the order
\* unbalanced, balanced, stabilizing, non-stabilizing, none skipped, and the
\* Riccati solve fails only after all four were tried.
C19_FallbackChainOfFour ==
    sskf_pc # "riccati" =>
      /\ Len(tried) <= 4
      /\ \A n \in 1..Len(tried) : tried[n] = ChainOrder[n]
      /\ sskf_pc = "riccati_failed" => tried = ChainOrder

C20_NegativeQWarned ==
    (~IsNone(warned) /\ pc # "raised" /\ MinOf(q_upper, M) < 0 /\ ~IsNone(rel_q_small))
        => Val(warned)

\* C17: the EM loop leaves through the convergence test at iteration i only
\* if i > 0, the absolute relative change of the log-likelihood between
\* iterations i-1 and i is below the tolerance, and the relative change of Q
\* of the most recent Q update is below the tolerance; it never does so at
\* the first iteration, and then no M-step follows the last E-step (the
\* call has run one E-step more than it has completed M-steps).
C17_ConvergenceOnlyWhenBothSmall ==
    broke =>
      /\ it > 0
      /\ Len(lls) = it + 1
      /\ Abs(lls[it] - lls[it + 1]) * RelTol.den < RelTol.num * Abs(lls[it])
      /\ rel_q_small = Some(TRUE)
      /\ pc \in {"return", "fitted", "done"}
      /\ n_estep = it + 1
      /\ cyc = 0

C17_Witness ==
    /\ broke
    /\ pc = "done"
    /\ it < args.max_iter

\* the call is inside _fit's EM loop or between the loop and the return
FitRunning == pc \in {"estep", "mstep", "cyclic", "return", "fitted"}

\* the E-steps run so far: one per EM iteration begun
OneEStepPerIteration ==
    CASE pc = "idle" -> n_estep = 0
      [] pc = "estep" -> n_estep = it
      [] pc \in {"mstep", "cyclic"} -> n_estep = it + 1
      [] pc \in {"return", "fitted", "done"} -> n_estep = IF broke THEN it + 1 ELSE it
      [] pc = "raised" -> n_estep \in {it, it + 1}

\* the loop ended through the convergence test, or after max_iter iterations
Converged == pc = "done" /\ broke

MaxIterReached == pc = "done" /\ ~broke /\ it = args.max_iter

\* C18 as stated: one fit runs the smoother once per EM iteration and at most
\* max_iter times, runs at most max_cyclic_iter passes in each M-step, and
\* always reaches CONVERGED or MAX-ITER-REACHED.
C18_AlwaysConvergedOrMaxIter ==
    /\ [](OneEStepPerIteration /\ n_estep <= args.max_iter /\ cyc < args.max_cyclic_iter)
    /\ FitRunning ~> (Converged \/ MaxIterReached)

\* C18, amended: one fit runs the smoother once per EM iteration and at most
\* max_iter times, runs at most max_cyclic_iter passes in each M-step, and
\* always ends: converged, with max_iter iterations done, or with an
\* exception raised by the smoother or the coefficient update.
C18_BoundedAndEnds ==
    /\ [](OneEStepPerIteration /\ n_estep <= args.max_iter /\ cyc < args.max_cyclic_iter)
    /\ FitRunning ~> (Converged \/ MaxIterReached \/ pc = "raised")

C18_Witness ==
    /\ MaxIterReached
    /\ args.max_iter > 1
    /\ n_estep = args.max_iter

RatEq(x, y) == x.num * y.den = y.num * x.den

\* C21: in every EM iteration of one fit the Q update gets the same prior
\* parameters, the caller's alpha and beta rescaled exactly once by t: the
\* values the cyclic passes of any iteration hand to solve_for_q are those
\* one rescaling of the arguments gives.
C21_PriorRescaledOnce ==
    pc = "cyclic" =>
      /\ RatEq(prior.alpha, RescalePrior(prior_arg, t_ss).alpha)
      /\ RatEq(prior.beta, RescalePrior(prior_arg, t_ss).beta)

\* the lag-summed mass of all the entries (target index, source index) of
\* the rows of region j and the columns of region i
RECURSIVE SumOver(_, _)
SumOver(sp, cells) ==
    IF cells = {} THEN 0
    ELSE LET c == CHOOSE x \in cells : TRUE
         IN  sp[c] + SumOver(sp, cells \ {c})

BlockMass(i, j) == SumOver(FullSparsity, Block(j) \X Block(i))

\* C22: the cross-regression mass the pre-filter compares for (source region
\* i, target region j) is the sum over all E*E entries of the target block's
\* rows and the source block's columns: an enumerated pair is kept exactly
\* when that mass exceeds sparsity_factor times the target's self mass.
C22_CrossMassOverBlock ==
    l_pc # "start" =>
      \A i, j \in 0..(NRegions - 1) :
        (InRois(i) /\ InRois(j) /\ i # j) =>
          /\ CrossMass(FullSparsity, i, j, n_eigenmodes) = BlockMass(i, j)
          /\ IsLinkToCheck(j, i) <=>
                ~Discards(BlockMass(i, j), SelfMass(FullSparsity, j, n_eigenmodes),
                          sparsity_factor)

C24_BuffersReleasedOnReturn ==
    /\ l_pc = "done" => \A b \in Buffers : shm[b] # "created"
    /\ (\E b \in Buffers : shm[b] \in {"closed", "unlinked"}) => pending = {}

\* C26: after all the tasks of the link stage have succeeded, a failure of
\* the release of a shared buffer is swallowed: the orchestrator still
\* releases the remaining buffers and returns the aggregated result.
C26_ReleaseFailureSwallowed ==
    (l_pc \in {"done", "raised"} /\ Len(links_to_check) > 0) =>
      /\ l_pc = "done"
      /\ \A b \in Buffers : shm[b] # "created"
      /\ dev_raw = Deviance(links_to_check, model_f.ll, shared_ll_r, NRegions)

\* C25: when a task of the cross-validation completes, it has closed every
\* shared-buffer handle it attached, and no task has unlinked a buffer.
C25_TaskClosedItsHandles ==
    /\ \A sp \in Folds :
         (cv_pc \in {"folds", "collected", "refit"} /\ sp \notin cv_pending) =>
           cv_open[sp] = {}
    /\ cv_pc = "folds" => \A b \in CvBuffers : cv_shm[b] = "created"

\* C27: within one fold the fits follow the grid: the fit at grid position
\* i > 0 starts from the coefficients the fit at position i - 1 of the same
\* fold returned, and the fit at position 0 starts from the caller's a_init.
C27_WarmStartWithinFold ==
    \A x \in DOMAIN cv_fits :
      ~IsNone(cv_fits[x]) =>
        IF x[2] = 0 THEN Val(cv_fits[x]).a_init = cv_a_init
        ELSE /\ ~IsNone(cv_fits[<<x[1], x[2] - 1>>])
             /\ Val(cv_fits[x]).a_init = Some(Val(cv_fits[<<x[1], x[2] - 1>>]).a)

C27_Witness ==
    /\ cv_pc = "collected"
    /\ GridLen(cv_lambdas) >= 2
    /\ ~IsNone(cv_a_init)
    /\ \E s1, s2 \in Folds :
         /\ Val(cv_fits[<<s1, 0>>]).a # Val(cv_fits[<<s2, 0>>]).a
         /\ Val(cv_fits[<<s1, 1>>]).a_init = Some(Val(cv_fits[<<s1, 0>>]).a)
         /\ Val(cv_fits[<<s1, 1>>]).a_init # Val(cv_fits[<<s2, 1>>]).a_init
         /\ Val(cv_fits[<<s1, 1>>]).a_init # cv_a_init

\* C28: after a fit has returned, in either terminal state, model.ll is the
\* log-likelihood at the parameters the fit returned: the coefficients of
\* the E-step that computed the last entry of lls are the returned ones.
C28_LlAtReturnedParameters ==
    (pc = "done" /\ caller = "public") =>
      /\ ll = Some(lls[Len(lls)])
      /\ UnravelA(Val(a_), M, order) = Val(parameters).a

\* the entries of the tensor _unravel_a makes of the stacked matrix that
\* come from the cells of the zero mask
MaskedTensorEntries ==
    LET probe == [c \in StackedIdx(M, order) |-> IF c \in ZeroedCells THEN 0 ELSE 1]
    IN  {x \in TensorIdx(M, order) : UnravelA(probe, M, order)[x] = 0}

\* C29: for a restriction I->J on a model of m state columns and order p the
\* zero mask is exactly the cells (row j, column i + k*m), i in I, j in J,
\* 0 <= k < p, of the stacked matrix; under _unravel_a these are exactly the
\* entries A[k, j, i], and they are zero in the tensor a fit returns.
C29_MaskIsEveryLagOfTensor ==
    ~IsNone(zeroed_index) =>
      LET named == NamedIndices(Val(restriction))
          entries == {<<k, j, i>> : k \in Lags, j \in named.tgts, i \in named.srcs}
      IN  /\ ZeroedCells = {<<j, i + k * M>> : j \in named.tgts, i \in named.srcs, k \in Lags}
          /\ MaskedTensorEntries = entries
          /\ pc \in {"done", "fitted"} => \A x \in entries : Val(parameters).a[x] = 0

C29_Witness ==
    /\ pc = "done"
    /\ order = 2
    /\ M = 2
    /\ restriction = Some(<<"0", ",", "1", "-", ">", "1">>)
    /\ MaskedTensorEntries = {<<0, 1, 0>>, <<0, 1, 1>>, <<1, 1, 0>>, <<1, 1, 1>>}
    /\ \A x \in TensorIdx(M, order) : Val(parameters).a[x] = 0 <=> x \in MaskedTensorEntries

\* C30: when no candidate pair survives, the link stage runs no task and
\* returns an all-zero deviance, an all-zero reduced bias, all-false
\* convergence flags and a full-model bias of 0.
C30_NoLinkResult ==
    (l_pc = "done" /\ Len(links_to_check) = 0) =>
      /\ dev_raw = ConstMat(NRegions, 0)
      /\ bias_r = ConstMat(NRegions, 0)
      /\ conv_flags = ConstMat(NRegions, AsFloat(FALSE))
      /\ bias_f = 0
      /\ task_ll = ConstMat(NRegions, None)
      /\ shared_ll_r = ConstMat(NRegions, 0)

C30_Witness ==
    /\ l_pc = "done"
    /\ Len(links_to_check) = 0
    /\ Len(ROIs) = NRegions
    /\ bias_f = 0

====
